---- MODULE Spec2Model ----
(***************************************************************************)
(* genflux: synthesis of pcap capture files (internal/pcapgen) and         *)
(* rate-controlled replay of a capture onto a link (internal/replay).      *)
(*                                                                         *)
(* Two state machines share this module; each specification runs one of   *)
(* them and leaves the variables of the other at their idle values:        *)
(*   SpecReplay  - replay.Replay / replayOnce / waitForSchedule /          *)
(*                 sleepUntil                                              *)
(*   SpecGen     - pcapgen.Generate / createPcapFileFlows / createPcapFile *)
(***************************************************************************)
EXTENDS Integers, Sequences, FiniteSets, TLC

(***************************************************************************)
(* Bounds of the model.                                                    *)
(***************************************************************************)
\* packets in the replayed capture: 0 .. MaxPkts
MaxPkts == 3
\* configured finite loop counts: 0 (unbounded) .. MaxLoop
MaxLoop == 2
\* configured packet limits: 0 (unbounded) .. MaxLimit
MaxLimit == 3
\* loop iterations explored when the loop count is unbounded
MaxIter == 3

(***************************************************************************)
(* Program constants of the replay engine.  Time is in nanoseconds, the    *)
(* unit of Go's time.Duration.                                             *)
(***************************************************************************)
Second == 1000000000
Microsecond == 1000
\* sleepUntil: above this distance from the deadline the goroutine sleeps
SpinThresholdUs == 150
\* sleepUntil: the sleep stops this far before the deadline
SleepMarginUs == 100
\* bits per byte in totalBits += len(data) * 8
BitsPerByte == 8
\* bits per second of one Mbps, in cfg.Mbps * 1e6
MbpsUnit == 1000000

(***************************************************************************)
(* Replay state.                                                           *)
(***************************************************************************)
VARIABLES
    cfg,            \* replay.Config as passed by the caller
    capture,        \* the records of the file at cfg.InPath: <<[ts, len]>>
    pc,             \* position of the replay invocation
    result,         \* what Replay returned ("none" while running)
    mode,           \* cfg.Mode after defaulting
    loop,           \* Replay: loop
    remaining,      \* Replay: "nil" or "ptr" (remaining points at cfg.Limit)
    limit,          \* Replay's own cfg.Limit, the cell remaining points at
    pos,            \* replayOnce: records the reader has returned
    startTime,      \* replayOnce: startTime
    baseSet,        \* replayOnce: ~baseTS.IsZero()
    baseTS,         \* replayOnce: baseTS
    totalBits,      \* replayOnce: totalBits
    totalPackets,   \* replayOnce: totalPackets
    target,         \* waitForSchedule: target
    now,            \* the latest reading of time.Now()
    wire            \* the unix.Sendto calls made: <<[loop, idx, ok]>>

replayVars == <<cfg, capture, pc, result, mode, loop, remaining, limit, pos,
                startTime, baseSet, baseTS, totalBits, totalPackets, target,
                now, wire>>

(***************************************************************************)
(* Generation state.  Durations and timestamps are in microseconds, the    *)
(* resolution of a pcap record; both readers of a duration in pcapgen      *)
(* (duration / time.Microsecond and int64(duration.Seconds())) drop what   *)
(* lies below a microsecond.                                               *)
(***************************************************************************)
VARIABLES
    gcfg,           \* pcapgen.Config as passed to Generate
    gpc,            \* position of the Generate invocation
    gresult,        \* what Generate returned ("none" while running)
    internal,       \* Generate: the internal host pool
    external,       \* Generate: the external host pool
    fileIdx,        \* Generate: i, the index of the file being produced
    genStart,       \* Generate: startTime, the start of the next file
    dur,            \* Generate: dur, the duration of the file being produced
    files,          \* the files on disk: <<[path, header, bytes, records]>>
    fn              \* locals of the running createPcapFile(Flows) call

genVars == <<gcfg, gpc, gresult, internal, external, fileIdx, genStart, dur,
             files, fn>>

(***************************************************************************)
(* Inputs of a replay invocation.                                          *)
(***************************************************************************)
\* (mode, mbps, pps) combinations, valid and invalid
RateCfgs ==
    { <<"", 0, 0>>, <<"timestamp", 0, 0>>,
      <<"mbps", 0, 0>>, <<"mbps", 1, 0>>,
      <<"pps", 0, 0>>, <<"pps", 0, 3000>> }

\* (InPath, Iface) combinations
PathCfgs == { <<"in.pcap", "eth0">> }
BadPathCfgs == { <<"", "eth0">>, <<"in.pcap", "">> }

ReplayConfigs ==
    { [InPath |-> p[1], Iface |-> p[2], Mode |-> r[1], Mbps |-> r[2],
       Pps |-> r[3], Loop |-> l, Limit |-> m] :
         p \in PathCfgs, r \in RateCfgs, l \in 0..MaxLoop, m \in 0..MaxLimit }
    \cup
    { [InPath |-> p[1], Iface |-> p[2], Mode |-> "timestamp", Mbps |-> 0,
       Pps |-> 0, Loop |-> 1, Limit |-> 0] : p \in BadPathCfgs }

\* capture timestamp of the i-th record, nanoseconds after the first;
\* gaps of 120us (inside the spin window) and 400us (beyond it)
CaptureTs(i) == IF i % 2 = 0 THEN (i \div 2) * 520000 - 400000
                             ELSE (i \div 2) * 520000
\* frame length of the i-th record, bytes
CaptureLen(i) == 62 + 10 * (i % 2)

CaptureOf(n) == [i \in 1..n |-> [ts |-> CaptureTs(i), len |-> CaptureLen(i)]]

\* elapsed time observed between two readings of the clock
Jitter == {0, 60000}
\* how far time.Sleep overshoots the requested duration (the second value
\* wakes the goroutine exactly on the deadline)
Oversleep == {0, 100000}

(***************************************************************************)
(* replay.go                                                               *)
(***************************************************************************)
\* floor(a * b / c) without forming a * b
MulDiv(a, b, c) == a * (b \div c) + (a * (b % c)) \div c

\* time.Duration(float64(n) / rate * float64(time.Second)): the float
\* product truncated to whole nanoseconds
SecondsToDuration(n, rate) == MulDiv(n, Second, rate)

\* waitForSchedule: the deadline of the packet about to be sent
ScheduleTarget(m, start, base, pktTS, bits, pkts) ==
    CASE m = "timestamp" -> start + (pktTS - base)
      [] m = "mbps" -> start + MulDiv(bits, Second \div MbpsUnit, cfg.Mbps)
      [] m = "pps" -> start + SecondsToDuration(pkts, cfg.Pps)
      [] OTHER -> start + (pktTS - base)

\* a reading of time.Now(): never before the previous reading
ClockRead == { now + j : j \in Jitter }

\* replayOnce returned nil to Replay (lines 76-83): loop++ and around again
ReturnNilToReplay ==
    /\ loop' = loop + 1
    /\ pc' = "loopHead"

\* Replay returns err
ReturnErr(e) ==
    /\ pc' = "done"
    /\ result' = e

\* a send failure that is swallowed: the packet is skipped and the loop goes on
SendFailedSkip == pc' = "read" /\ UNCHANGED result

\* unix.Sendto failed (lines 131-133, then 76-78): replayOnce returns the
\* error and Replay returns it
SendFailed == ReturnErr("errSend")

\* Replay lines 35-71: validation, socket set-up, loop and remaining
ReplayStart ==
    /\ pc = "start"
    /\ \E envOk \in BOOLEAN :
        LET m == IF cfg.Mode = "" THEN "timestamp" ELSE cfg.Mode IN
        /\ mode' = m
        /\ IF cfg.InPath = "" \/ cfg.Iface = ""
             THEN ReturnErr("errConfig") /\ UNCHANGED <<loop, remaining>>
           ELSE IF m = "mbps" /\ cfg.Mbps <= 0
             THEN ReturnErr("errConfig") /\ UNCHANGED <<loop, remaining>>
           ELSE IF m = "pps" /\ cfg.Pps <= 0
             THEN ReturnErr("errConfig") /\ UNCHANGED <<loop, remaining>>
           ELSE IF ~envOk
             THEN ReturnErr("errSetup") /\ UNCHANGED <<loop, remaining>>
           ELSE /\ loop' = 0
                /\ remaining' = IF cfg.Limit > 0 THEN "ptr" ELSE "nil"
                /\ pc' = "loopHead"
                /\ UNCHANGED result
    /\ UNCHANGED <<cfg, capture, limit, pos, startTime, baseSet, baseTS,
                   totalBits, totalPackets, target, now, wire>>
    /\ UNCHANGED genVars

\* the loop test letting one pass too many through
LoopFinishedOffByOne(l) == cfg.Loop > 0 /\ l > cfg.Loop

\* Replay lines 73-75: the configured number of passes has been made
LoopFinished(l) == cfg.Loop > 0 /\ l >= cfg.Loop

\* Replay lines 72-76, and replayOnce lines 88-107 when the loop goes on
LoopHead ==
    /\ pc = "loopHead"
    /\ IF LoopFinished(loop)
         THEN /\ pc' = "done"
              /\ result' = "nil"
              /\ UNCHANGED <<pos, startTime, baseSet, totalBits, totalPackets>>
         ELSE /\ loop < MaxIter
              /\ \E openOk \in BOOLEAN :
                   IF ~openOk
                     THEN /\ ReturnErr("errOpen")
                          /\ UNCHANGED <<pos, startTime, baseSet, totalBits,
                                         totalPackets>>
                     ELSE /\ pc' = "read"
                          /\ pos' = 0
                          /\ startTime' = now
                          /\ baseSet' = FALSE
                          /\ totalBits' = 0
                          /\ totalPackets' = 0
                          /\ UNCHANGED result
    /\ UNCHANGED <<cfg, capture, mode, loop, remaining, limit, baseTS, target,
                   now, wire>>
    /\ UNCHANGED genVars

\* the limit checks without the test for a spent budget of lines 122-124
LimitReachedNoZeroCheck(tp) ==
    remaining # "nil" /\ limit > 0 /\ tp >= limit

\* the two limit checks of replayOnce, lines 122-127
LimitReached(tp) ==
    \/ remaining # "nil" /\ limit = 0
    \/ remaining # "nil" /\ limit > 0 /\ tp >= limit

\* replayOnce lines 110-129: read a record, anchor the loop on the first
\* one, check the limit, compute the deadline
ReadPacket ==
    /\ pc = "read"
    /\ IF pos = Len(capture)
         THEN /\ ReturnNilToReplay
              /\ UNCHANGED <<result, pos, startTime, baseSet, baseTS, target,
                             now>>
         ELSE \E readOk \in BOOLEAN, t \in ClockRead :
              IF ~readOk
                THEN /\ ReturnErr("errRead")
                     /\ UNCHANGED <<loop, pos, startTime, baseSet, baseTS,
                                    target, now>>
                ELSE LET pkt == capture[pos + 1]
                         base == IF baseSet THEN baseTS ELSE pkt.ts
                         start == IF baseSet THEN startTime ELSE t
                     IN
                     /\ pos' = pos + 1
                     /\ baseSet' = TRUE
                     /\ baseTS' = base
                     /\ startTime' = start
                     /\ now' = IF baseSet THEN now ELSE t
                     /\ IF LimitReached(totalPackets)
                          THEN ReturnNilToReplay /\ UNCHANGED <<result, target>>
                          ELSE /\ target' = ScheduleTarget(mode, start, base,
                                              pkt.ts, totalBits, totalPackets)
                               /\ pc' = "sleep"
                               /\ UNCHANGED <<result, loop>>
    /\ UNCHANGED <<cfg, capture, mode, remaining, limit, totalBits,
                   totalPackets, wire>>
    /\ UNCHANGED genVars

\* an exit test that gives up as soon as the spin window is reached
DueInSpinWindow(delta) == delta <= SpinThresholdUs * Microsecond

\* sleepUntil's exit test, line 177
Due(delta) == delta <= 0

\* one iteration of sleepUntil, lines 174-184
SleepUntil ==
    /\ pc = "sleep"
    /\ \E t \in ClockRead, o \in Oversleep :
         LET delta == target - t IN
         IF Due(delta)
           THEN now' = t /\ pc' = "send"
         ELSE IF delta > SpinThresholdUs * Microsecond
           THEN now' = t + (delta - SleepMarginUs * Microsecond) + o
                /\ pc' = "sleep"
         ELSE now' = t /\ pc' = "sleep"
    /\ UNCHANGED <<cfg, capture, result, mode, loop, remaining, limit, pos,
                   startTime, baseSet, baseTS, totalBits, totalPackets,
                   target, wire>>
    /\ UNCHANGED genVars

\* replayOnce lines 131-139: transmit, count, spend the budget.  The
\* statistics of lines 141-150 only print and are left out.
SendPacket ==
    /\ pc = "send"
    /\ \E ok \in BOOLEAN :
         /\ wire' = Append(wire, [loop |-> loop, idx |-> pos, ok |-> ok])
         /\ IF ~ok
              THEN /\ SendFailed
                   /\ UNCHANGED <<totalPackets, totalBits, limit>>
              ELSE /\ totalPackets' = totalPackets + 1
                   /\ totalBits' = totalBits + capture[pos].len * BitsPerByte
                   /\ limit' = IF remaining # "nil" /\ limit > 0
                                 THEN limit - 1 ELSE limit
                   /\ pc' = "read"
                   /\ UNCHANGED result
    /\ UNCHANGED <<cfg, capture, mode, loop, remaining, pos, startTime,
                   baseSet, baseTS, target, now>>
    /\ UNCHANGED genVars

(***************************************************************************)
(* Bounds of the generation model.                                         *)
(***************************************************************************)
\* host pools of the fixed-flow runs: 1 .. MaxHosts hosts on each side
MaxHosts == 2
\* packets per flow: 1 .. MaxPPF
MaxPPF == 2
\* packets of a random-mode run: 1 .. MaxRandPkts
MaxRandPkts == 3

(***************************************************************************)
(* Program constants of the generator.                                     *)
(***************************************************************************)
\* capacity of 192.168.0.0/16 and of 10.0.0.0/8
InternalCapacity == 65536
ExternalCapacity == 16777216
\* the budget constants of createPcapFile and createPcapFileFlows
sizeFileHeader == 24
sizePacketPlusHeader == 78
\* what the pcap writer puts on disk: the global header, and a header in
\* front of every record
PcapFileHeaderLen == 24
PcapRecordHeaderLen == 16
\* the layers of the one frame shape: Ethernet, IPv4 with IHL words, TCP
\* with DataOffset words (20 bytes and 8 bytes of options)
EthernetHeaderLen == 14
IHL == 5
DataOffset == 7
\* the snap length written into the global header
SnapLen == 65535
\* microseconds per second, in the timestamp cursor of createPcapFile
UsecPerSec == 1000000
\* the byte a host index is cut down to
ByteRange == 256

(***************************************************************************)
(* Inputs of a generation run.                                             *)
(***************************************************************************)
BaseCfg ==
    [InternalHosts |-> 2, ExternalHosts |-> 2,
     MinDuration |-> 1000000, MaxDuration |-> 1000000,
     FileCount |-> 1, OutDir |-> ".", OutFile |-> "",
     StartTime |-> 100000000, MaxSizeBytes |-> 300000000,
     ExactBytes |-> 102, FlowCount |-> 0, PacketsPerFlow |-> 2]

\* (MinDuration, MaxDuration): 3us, 1s, and the range 2s .. 5s
DurCfgs == { <<3, 3>>, <<1000000, 1000000>>, <<2000000, 5000000>> }

\* payload padding asked for beyond the minimal records
Pads == {0, 5, 77}
\* padding that makes the last frame one byte longer than the snap length
BigPad == SnapLen + 1 - (EthernetHeaderLen + IHL * 4 + DataOffset * 4)

BaseSize(n) == sizeFileHeader + n * sizePacketPlusHeader

\* fixed-flow runs: every pool shape, flow counts up to one past the
\* capacity, exact sizes from one byte short of the minimum upwards
FlowCfgs ==
    { [BaseCfg EXCEPT !.InternalHosts = i, !.ExternalHosts = e,
                      !.FlowCount = f, !.PacketsPerFlow = q,
                      !.ExactBytes = BaseSize(f * q) + x,
                      !.MinDuration = d[1], !.MaxDuration = d[2]] :
        i \in 1..MaxHosts, e \in 1..MaxHosts, f \in 1..(2 * MaxHosts * MaxHosts + 1),
        q \in 1..MaxPPF, x \in {-1, 0, 5, BigPad}, d \in DurCfgs }

FlowCfgsInRange == { c \in FlowCfgs :
                       c.FlowCount <= 2 * c.InternalHosts * c.ExternalHosts + 1 }

\* random-mode runs
RandomCfgs ==
    { [BaseCfg EXCEPT !.ExactBytes = BaseSize(n) + x,
                      !.MinDuration = d[1], !.MaxDuration = d[2]] :
        n \in 1..MaxRandPkts, x \in Pads \cup {-1}, d \in DurCfgs }

\* configurations Generate has to look at twice: invalid fields, an
\* explicit output file, several files, a start time that is not a whole
\* second, pools at and past the capacity
OddCfgs ==
    { [BaseCfg EXCEPT !.StartTime = @ + UsecPerSec \div 2,
                      !.ExactBytes = BaseSize(2)],
      [BaseCfg EXCEPT !.StartTime = @ + UsecPerSec \div 2, !.FlowCount = 2,
                      !.PacketsPerFlow = 1, !.ExactBytes = BaseSize(2)],
      [BaseCfg EXCEPT !.InternalHosts = 0],
      [BaseCfg EXCEPT !.ExternalHosts = 0],
      [BaseCfg EXCEPT !.FileCount = 0],
      [BaseCfg EXCEPT !.FileCount = 2],
      [BaseCfg EXCEPT !.FileCount = 2, !.ExactBytes = 0],
      [BaseCfg EXCEPT !.FileCount = 2, !.OutFile = "my.pcap"],
      [BaseCfg EXCEPT !.FileCount = 2, !.OutFile = "my.pcap", !.ExactBytes = 0],
      [BaseCfg EXCEPT !.OutFile = "my.pcap"],
      [BaseCfg EXCEPT !.OutFile = "my.pcap", !.FlowCount = 3,
                      !.PacketsPerFlow = 1, !.ExactBytes = BaseSize(3)],
      [BaseCfg EXCEPT !.OutFile = "my.pcap", !.ExactBytes = 0],
      [BaseCfg EXCEPT !.MinDuration = 0],
      [BaseCfg EXCEPT !.MaxDuration = 0],
      [BaseCfg EXCEPT !.MinDuration = 2000000],
      [BaseCfg EXCEPT !.ExactBytes = 0],
      [BaseCfg EXCEPT !.ExactBytes = -1],
      [BaseCfg EXCEPT !.FlowCount = -1],
      [BaseCfg EXCEPT !.FlowCount = 1, !.PacketsPerFlow = 0],
      [BaseCfg EXCEPT !.FlowCount = 1, !.PacketsPerFlow = -1] }
    \cup
    { [BaseCfg EXCEPT !.InternalHosts = h[1], !.ExternalHosts = h[2],
                      !.FlowCount = f, !.PacketsPerFlow = 1,
                      !.ExactBytes = BaseSize(2)] :
        h \in { <<InternalCapacity, 1>>, <<InternalCapacity + 1, 1>>,
                <<1, ExternalCapacity>>, <<1, ExternalCapacity + 1>> },
        f \in {0, 2} }

GenConfigs == FlowCfgsInRange \cup RandomCfgs \cup OddCfgs

\* randomDuration: min when the range is empty, else min + Int63n(max - min)
DurationDraws(min, max) ==
    IF min = max THEN {min}
    ELSE {min, min + (max - min) \div 2, max - 1}

\* durationScalar(hour, weekend) is a float in [0, 1];
\* time.Duration(float64(480) * scale) * time.Second is a whole number of
\* seconds in 0 .. 480
ScaledDurations == { 0, 240 * UsecPerSec, 480 * UsecPerSec }

\* randSrc.Intn(n + 1): the ends and the middle of 0 .. n
IntnDraws(n) == {0, n \div 2, n}

(***************************************************************************)
(* pcapgen.go                                                              *)
(***************************************************************************)
\* the validation without the out-file check of lines 65-67
ValidateConfigNoOutFileCheck(c) ==
    IF c.InternalHosts <= 0 \/ c.ExternalHosts <= 0 THEN "errHosts"
    ELSE IF c.FileCount <= 0 THEN "errFileCount"
    ELSE IF c.ExactBytes > 0 /\ c.FileCount # 1 THEN "errExactFileCount"
    ELSE IF c.MinDuration <= 0 \/ c.MaxDuration <= 0
            \/ c.MaxDuration < c.MinDuration THEN "errDuration"
    ELSE IF c.ExactBytes <= 0 THEN "errExactSize"
    ELSE IF c.FlowCount < 0 THEN "errFlowCount"
    ELSE IF c.FlowCount > 0 /\ c.PacketsPerFlow <= 0 THEN "errPacketsPerFlow"
    ELSE "ok"

\* Generate lines 59-82: the first check that fails, or "ok"
ValidateConfig(c) ==
    IF c.InternalHosts <= 0 \/ c.ExternalHosts <= 0 THEN "errHosts"
    ELSE IF c.FileCount <= 0 THEN "errFileCount"
    ELSE IF c.OutFile # "" /\ c.FileCount # 1 THEN "errOutFileCount"
    ELSE IF c.ExactBytes > 0 /\ c.FileCount # 1 THEN "errExactFileCount"
    ELSE IF c.MinDuration <= 0 \/ c.MaxDuration <= 0
            \/ c.MaxDuration < c.MinDuration THEN "errDuration"
    ELSE IF c.ExactBytes <= 0 THEN "errExactSize"
    ELSE IF c.FlowCount < 0 THEN "errFlowCount"
    ELSE IF c.FlowCount > 0 /\ c.PacketsPerFlow <= 0 THEN "errPacketsPerFlow"
    ELSE "ok"

\* Generate lines 88-94: the capacity checks of the capacity-unique pools
CheckCapacity(c) ==
    IF c.FlowCount <= 0 THEN "ok"
    ELSE IF c.InternalHosts > InternalCapacity THEN "errInternalCapacity"
    ELSE IF c.ExternalHosts > ExternalCapacity THEN "errExternalCapacity"
    ELSE "ok"

\* byte(x)
Byte(x) == x % ByteRange

\* the third byte taken modulo, like the fourth
uniqueInternalIPv4SameByte(idx) ==
    <<192, 168, Byte(idx % 256), Byte(idx % 256)>>

uniqueInternalIPv4(idx) ==
    <<192, 168, Byte(idx \div 256), Byte(idx % 256)>>

uniqueExternalIPv4(idx) ==
    <<10, Byte((idx \div 65536) % 256), Byte((idx \div 256) % 256),
      Byte(idx % 256)>>

\* Generate lines 86-108: a pool is its size and how its addresses were
\* assigned; in a unique pool host i has the address unique...IPv4(i).  The
\* MACs, and the addresses of a random pool, are draws no later step reads.
MakePool(n, flowCount) ==
    [count |-> n, mode |-> IF flowCount > 0 THEN "unique" ELSE "random"]

\* the quotient taken by the wrong pool size
flowIndexToHostsWrongDivisor(idx, internalCount, externalCount) ==
    LET totalPair == internalCount * externalCount IN
    IF idx < totalPair
      THEN <<idx \div internalCount, idx % externalCount, TRUE>>
      ELSE <<(idx - totalPair) \div internalCount,
             (idx - totalPair) % externalCount, FALSE>>

flowIndexToHosts(idx, internalCount, externalCount) ==
    LET totalPair == internalCount * externalCount IN
    IF idx < totalPair
      THEN <<idx \div externalCount, idx % externalCount, TRUE>>
      ELSE <<(idx - totalPair) \div externalCount,
             (idx - totalPair) % externalCount, FALSE>>

\* len(packetData) of createPacket / createPacketForHosts
FrameLen(payloadLen) ==
    EthernetHeaderLen + IHL * 4 + DataOffset * 4
      + (IF payloadLen > 0 THEN payloadLen ELSE 0)

\* fmt.Sprintf("%06d", i) as its digits
Digits(i, width) == [k \in 1..width |-> (i \div (10 ^ (width - k))) % 10]

\* Generate lines 112-119
FilePath(c, i) ==
    IF c.OutFile # ""
      THEN [dir |-> "", prefix |-> c.OutFile, digits |-> <<>>, ext |-> ""]
    ELSE IF c.FileCount > 1
      THEN [dir |-> c.OutDir, prefix |-> "generated_", digits |-> Digits(i, 6),
            ext |-> ".pcap"]
    ELSE [dir |-> c.OutDir, prefix |-> "generated_", digits |-> <<0, 0, 0, 0>>,
          ext |-> ".pcap"]

NoLocals == [kind |-> "none"]

\* Generate returns err
GenReturn(e) ==
    /\ gpc' = "gdone"
    /\ gresult' = e

\* Generate lines 59-110
GenerateStart ==
    /\ gpc = "gstart"
    /\ LET v == ValidateConfig(gcfg)
           k == CheckCapacity(gcfg)
       IN
       IF v # "ok"
         THEN GenReturn(v) /\ UNCHANGED <<internal, external, genStart>>
       ELSE IF k # "ok"
         THEN GenReturn(k) /\ UNCHANGED <<internal, external, genStart>>
       ELSE /\ internal' = MakePool(gcfg.InternalHosts, gcfg.FlowCount)
            /\ external' = MakePool(gcfg.ExternalHosts, gcfg.FlowCount)
            /\ genStart' = gcfg.StartTime
            /\ gpc' = "file"
            /\ UNCHANGED gresult
    /\ UNCHANGED <<gcfg, fileIdx, dur, files, fn>>
    /\ UNCHANGED replayVars

\* the file a create...File call has just created
NewFile(path, start, d, header) ==
    [path |-> path, start |-> start, dur |-> d, header |-> header,
     bytes |-> IF header THEN PcapFileHeaderLen ELSE 0, records |-> <<>>]

\* createPcapFileFlows lines 162-176: the checks made once the file and
\* its header exist
FlowBudget(c, internalCount, externalCount) ==
    LET totalCapacity == 2 * internalCount * externalCount
        baseSize == sizeFileHeader + c.FlowCount * c.PacketsPerFlow * sizePacketPlusHeader
    IN
    IF c.FlowCount > totalCapacity THEN "errFlowCapacity"
    ELSE IF c.ExactBytes > 0 /\ c.ExactBytes < baseSize THEN "errExactTooSmall"
    ELSE IF c.ExactBytes <= 0 /\ c.MaxSizeBytes > 0 /\ baseSize > c.MaxSizeBytes
      THEN "errMaxSize"
    ELSE "ok"

\* the step taken from the packets of one flow instead of all of them
UsecStepPerFlow(totalUsec, totalPackets_) ==
    LET step == totalUsec \div gcfg.PacketsPerFlow
    IN IF step < 1 THEN 1 ELSE step

\* createPcapFileFlows lines 185-188: the step between two timestamps
UsecStep(totalUsec, totalPackets_) ==
    LET step == totalUsec \div totalPackets_
    IN IF step < 1 THEN 1 ELSE step

\* createPcapFileFlows lines 166-190: the locals the packet loop starts with
FlowLocals(c, d) ==
    LET totalPackets_ == c.FlowCount * c.PacketsPerFlow
        baseSize == sizeFileHeader + totalPackets_ * sizePacketPlusHeader
        duration == IF d <= 0 THEN 10 * UsecPerSec ELSE d
        totalUsec == IF duration <= 0 THEN 1 ELSE duration
    IN
    [kind |-> "flows",
     totalPackets |-> totalPackets_,
     payloadExtra |-> IF c.ExactBytes > 0 THEN c.ExactBytes - baseSize ELSE 0,
     usecStep |-> UsecStep(totalUsec, totalPackets_),
     packetIdx |-> 0, flowIdx |-> 0, p |-> 0]

\* createPcapFile lines 240-256: the checks and the locals of the
\* exact-size branch.  Generate rejects ExactBytes <= 0, so the max-size
\* branch of lines 299-344 never runs.
RandomBudget(exactBytes) ==
    IF exactBytes < sizeFileHeader + sizePacketPlusHeader THEN "errExactTooSmall"
    ELSE IF (exactBytes - sizeFileHeader) \div sizePacketPlusHeader <= 0
      THEN "errExactTooSmall"
    ELSE "ok"

RandomLocals(exactBytes, start, d) ==
    [kind |-> "random",
     totalPackets |-> (exactBytes - sizeFileHeader) \div sizePacketPlusHeader,
     remainder |-> (exactBytes - sizeFileHeader) % sizePacketPlusHeader,
     startSec |-> start \div UsecPerSec,
     endSec |-> start \div UsecPerSec + d \div UsecPerSec - 1,
     offsetUsec |-> 0, i |-> 0]

\* Generate lines 111-139 and the head of the create...File call it makes
\* (lines 145-190, or 223-256): the next file is named, given a duration,
\* created, its header written and its budget checked
FileLoop ==
    /\ gpc = "file"
    /\ IF fileIdx >= gcfg.FileCount
         THEN GenReturn("nil") /\ UNCHANGED <<dur, files, fn>>
         ELSE \E d0 \in DurationDraws(gcfg.MinDuration, gcfg.MaxDuration),
                 d1 \in ScaledDurations,
                 io \in {"ok", "createFails", "headerFails"} :
              LET d == IF gcfg.FileCount > 1 THEN d1 ELSE d0
                  path == FilePath(gcfg, fileIdx)
                  budget == IF gcfg.FlowCount > 0
                              THEN FlowBudget(gcfg, internal.count, external.count)
                              ELSE RandomBudget(gcfg.ExactBytes)
              IN
              /\ dur' = d
              /\ IF io = "createFails"
                   THEN GenReturn("errIO") /\ UNCHANGED <<files, fn>>
                 ELSE IF io = "headerFails"
                   THEN /\ GenReturn("errIO")
                        /\ files' = Append(files, NewFile(path, genStart, d, FALSE))
                        /\ UNCHANGED fn
                 ELSE IF budget # "ok"
                   THEN /\ GenReturn(budget)
                        /\ files' = Append(files, NewFile(path, genStart, d, TRUE))
                        /\ UNCHANGED fn
                 ELSE /\ files' = Append(files, NewFile(path, genStart, d, TRUE))
                      /\ fn' = IF gcfg.FlowCount > 0
                                 THEN FlowLocals(gcfg, d)
                                 ELSE RandomLocals(gcfg.ExactBytes, genStart, d)
                      /\ gpc' = IF gcfg.FlowCount > 0 THEN "flowPkt" ELSE "randPkt"
                      /\ UNCHANGED gresult
    /\ UNCHANGED <<gcfg, internal, external, fileIdx, genStart>>
    /\ UNCHANGED replayVars

\* writer.WritePacket: the record goes to the end of the newest file
WithRecord(fs, rec) ==
    [fs EXCEPT ![Len(fs)] =
        [@ EXCEPT !.records = Append(@, rec),
                  !.bytes = @ + PcapRecordHeaderLen + rec.caplen]]

\* a create...File call returned nil (Generate lines 140-141)
FileDone ==
    /\ genStart' = genStart + dur
    /\ fileIdx' = fileIdx + 1
    /\ gpc' = "file"
    /\ fn' = NoLocals

\* the last packet of every flow, not only of the last flow
IsLastPacketOfItsFlow(c, flowIdx, p) == p = c.PacketsPerFlow - 1

\* createPcapFileFlows line 197
IsLastPacket(c, flowIdx, p) ==
    flowIdx = c.FlowCount - 1 /\ p = c.PacketsPerFlow - 1

\* createPcapFileFlows lines 198-201
FlowPayloadLen(c, flowIdx, p, payloadExtra) ==
    IF IsLastPacket(c, flowIdx, p) /\ payloadExtra > 0 THEN payloadExtra ELSE 0

\* createPcapFileFlows lines 191-214: one packet of one flow
WriteFlowPacket ==
    /\ gpc = "flowPkt"
    /\ \E wrOk \in BOOLEAN :
       LET h == flowIndexToHosts(fn.flowIdx, internal.count, external.count)
           offsetUsec == fn.packetIdx * fn.usecStep
           packetTime == files[Len(files)].start + offsetUsec
           payloadLen == FlowPayloadLen(gcfg, fn.flowIdx, fn.p, fn.payloadExtra)
           rec == [ts |-> packetTime, caplen |-> FrameLen(payloadLen),
                   len |-> FrameLen(payloadLen), flowIdx |-> fn.flowIdx,
                   flow |-> h]
           lastOfFlow == fn.p + 1 >= gcfg.PacketsPerFlow
           nextFlow == IF lastOfFlow THEN fn.flowIdx + 1 ELSE fn.flowIdx
       IN
       IF h[1] < 0 \/ h[1] >= internal.count \/ h[2] < 0 \/ h[2] >= external.count
         THEN \* internal[internalIdx] or external[externalIdx] out of range
              /\ GenReturn("panic")
              /\ UNCHANGED <<files, fn, genStart, fileIdx>>
       ELSE IF ~wrOk
         THEN /\ GenReturn("errIO")
              /\ UNCHANGED <<files, fn, genStart, fileIdx>>
       ELSE /\ files' = WithRecord(files, rec)
            /\ IF nextFlow >= gcfg.FlowCount
                 THEN FileDone
                 ELSE /\ fn' = [fn EXCEPT !.packetIdx = @ + 1,
                                          !.flowIdx = nextFlow,
                                          !.p = IF lastOfFlow THEN 0 ELSE @ + 1]
                      /\ UNCHANGED <<gpc, genStart, fileIdx>>
            /\ UNCHANGED gresult
    /\ UNCHANGED <<gcfg, internal, external, dur>>
    /\ UNCHANGED replayVars

\* createPcapFile lines 281-288: the largest gap the next draw may add
InterPacket(startSec, endSec, left) ==
    LET remaining_ == IF endSec - startSec <= 0 THEN 1 ELSE endSec - startSec
        gap == (remaining_ * UsecPerSec) \div left
    IN IF gap < 1 THEN 1 ELSE gap

\* the padding test off by one: no packet is ever the last
RandomPayloadLenOffByOne(i, totalPackets_, remainder) ==
    IF i = totalPackets_ /\ remainder > 0 THEN remainder ELSE 0

\* createPcapFile lines 264-267
RandomPayloadLen(i, totalPackets_, remainder) ==
    IF i = totalPackets_ - 1 /\ remainder > 0 THEN remainder ELSE 0

\* a roll-over that forgets to carry into the second counter
AdvanceNoCarry(startSec, offsetUsec, draw) ==
    IF offsetUsec + draw >= UsecPerSec
      THEN [startSec |-> startSec, offsetUsec |-> offsetUsec + draw - UsecPerSec]
      ELSE [startSec |-> startSec, offsetUsec |-> offsetUsec + draw]

\* createPcapFile lines 289-293: the cursor after a draw
Advance(startSec, offsetUsec, draw) ==
    IF offsetUsec + draw >= UsecPerSec
      THEN [startSec |-> startSec + 1, offsetUsec |-> offsetUsec + draw - UsecPerSec]
      ELSE [startSec |-> startSec, offsetUsec |-> offsetUsec + draw]

\* createPcapFile lines 258-294: one packet of a random-mode file
WriteRandomPacket ==
    /\ gpc = "randPkt"
    /\ \E wrOk \in BOOLEAN,
          draw \in IntnDraws(InterPacket(fn.startSec, fn.endSec, fn.totalPackets - fn.i)) :
       LET packetTime == fn.startSec * UsecPerSec + fn.offsetUsec
           payloadLen == RandomPayloadLen(fn.i, fn.totalPackets, fn.remainder)
           rec == [ts |-> packetTime, caplen |-> FrameLen(payloadLen),
                   len |-> FrameLen(payloadLen), flowIdx |-> -1, flow |-> <<>>]
           cur == Advance(fn.startSec, fn.offsetUsec, draw)
       IN
       IF ~wrOk
         THEN /\ GenReturn("errIO")
              /\ UNCHANGED <<files, fn, genStart, fileIdx>>
       ELSE /\ files' = WithRecord(files, rec)
            /\ IF fn.i + 1 >= fn.totalPackets
                 THEN FileDone
                 ELSE /\ fn' = [fn EXCEPT !.i = @ + 1,
                                          !.startSec = cur.startSec,
                                          !.offsetUsec = cur.offsetUsec]
                      /\ UNCHANGED <<gpc, genStart, fileIdx>>
            /\ UNCHANGED gresult
    /\ UNCHANGED <<gcfg, internal, external, dur>>
    /\ UNCHANGED replayVars

GenNext == GenerateStart \/ FileLoop \/ WriteFlowPacket \/ WriteRandomPacket

GenIdle ==
    /\ gcfg = BaseCfg
    /\ gpc = "idle"
    /\ gresult = "none"
    /\ internal = MakePool(0, 0)
    /\ external = MakePool(0, 0)
    /\ fileIdx = 0
    /\ genStart = 0
    /\ dur = 0
    /\ files = <<>>
    /\ fn = NoLocals

GenInit ==
    /\ gcfg \in GenConfigs
    /\ gpc = "gstart"
    /\ gresult = "none"
    /\ internal = MakePool(0, 0)
    /\ external = MakePool(0, 0)
    /\ fileIdx = 0
    /\ genStart = 0
    /\ dur = 0
    /\ files = <<>>
    /\ fn = NoLocals

ReplayInit ==
    /\ cfg \in ReplayConfigs
    /\ capture \in { CaptureOf(n) : n \in 0..MaxPkts }
    /\ pc = "start"
    /\ result = "none"
    /\ mode = cfg.Mode
    /\ loop = 0
    /\ remaining = "nil"
    /\ limit = cfg.Limit
    /\ pos = 0
    /\ startTime = 0
    /\ baseSet = FALSE
    /\ baseTS = 0
    /\ totalBits = 0
    /\ totalPackets = 0
    /\ target = 0
    /\ now = 0
    /\ wire = <<>>

ReplayIdle ==
    /\ cfg = [InPath |-> "", Iface |-> "", Mode |-> "", Mbps |-> 0, Pps |-> 0,
              Loop |-> 0, Limit |-> 0]
    /\ capture = <<>>
    /\ pc = "idle"
    /\ result = "none"
    /\ mode = ""
    /\ loop = 0
    /\ remaining = "nil"
    /\ limit = 0
    /\ pos = 0
    /\ startTime = 0
    /\ baseSet = FALSE
    /\ baseTS = 0
    /\ totalBits = 0
    /\ totalPackets = 0
    /\ target = 0
    /\ now = 0
    /\ wire = <<>>

ReplayNext == ReplayStart \/ LoopHead \/ ReadPacket \/ SleepUntil \/ SendPacket

vars == <<replayVars, genVars>>

InitReplay == ReplayInit /\ GenIdle

SpecReplay == InitReplay /\ [][ReplayNext]_vars

InitGen == GenInit /\ ReplayIdle

SpecGen == InitGen /\ [][GenNext]_vars

(***************************************************************************)
(* Replay: what went out on the wire.                                      *)
(***************************************************************************)
\* the packets transmitted: the unix.Sendto calls that succeeded
Sent == SelectSeq(wire, LAMBDA w : w.ok)

\* the packets transmitted in the loop iteration now running
SentThisLoop == SelectSeq(wire, LAMBDA w : w.ok /\ w.loop = loop)

RECURSIVE BitsOf(_)
BitsOf(ws) ==
    IF ws = <<>> THEN 0
    ELSE capture[Head(ws).idx].len * BitsPerByte + BitsOf(Tail(ws))

\* the time after startTime at which the packet about to be sent is due,
\* from the progress of the running loop alone, in whole nanoseconds
ScheduledOffset ==
    CASE mode = "pps" -> SecondsToDuration(Len(SentThisLoop), cfg.Pps)
      [] mode = "mbps" -> MulDiv(BitsOf(SentThisLoop), Second \div MbpsUnit, cfg.Mbps)
      [] OTHER -> capture[pos].ts - capture[1].ts

\* C1: with a limit L > 0, a finite loop count n >= 1, a capture of at
\* least L packets and no error, a finished Replay has transmitted exactly
\* L packets in total.
C1_LimitIsCrossLoopTotal ==
    (pc = "done" /\ result = "nil" /\ cfg.Limit > 0 /\ cfg.Loop >= 1
       /\ Len(capture) >= cfg.Limit)
      => Len(Sent) = cfg.Limit

\* C2: with loop count 0 and a limit L > 0, once the remaining budget is
\* zero Replay returns instead of starting another loop iteration.
C2_StopsWhenBudgetSpent ==
    [][(pc = "loopHead" /\ cfg.Loop = 0 /\ remaining = "ptr" /\ limit = 0)
         => pc' = "done"]_vars

\* C8: in every pacing mode a packet is handed to the socket no earlier
\* than its scheduled send time: the start of the running loop plus
\* k/pps (pps mode, k packets sent in this loop), plus bits/(Mbps*1e6)
\* seconds (mbps mode, bits sent in this loop), plus the packet's capture
\* timestamp minus the loop's first (timestamp mode), the schedule being
\* a time.Duration, a whole number of nanoseconds.
C8_NotBeforeSchedule ==
    pc = "send" => now >= startTime + ScheduledOffset

\* C8 witness: in a second loop iteration, pps mode, a packet after the
\* first goes out exactly on its deadline.
C8_Witness ==
    /\ pc = "send"
    /\ mode = "pps"
    /\ loop >= 1
    /\ Len(SentThisLoop) >= 1
    /\ now = startTime + ScheduledOffset

\* C9: a failed send is the last send attempted, and Replay has returned
\* that error.
C9_SendFailureAborts ==
    \A i \in 1..Len(wire) :
        ~wire[i].ok => (i = Len(wire) /\ pc = "done" /\ result = "errSend")

\* C9 witness: a send fails in a second loop iteration, after packets were
\* transmitted and with more of the capture and more loops to go.
C9_Witness ==
    /\ Len(wire) >= 3
    /\ ~wire[Len(wire)].ok
    /\ wire[Len(wire)].loop >= 1
    /\ wire[Len(wire)].idx < Len(capture)
    /\ cfg.Loop = 0
    /\ pc = "done"

(***************************************************************************)
(* Generation: what is on disk.                                            *)
(***************************************************************************)
\* the file the running create...File call writes
CurrentFile == files[Len(files)]

\* Generate took the configuration, and a fixed-flow run fits both the
\* flow capacity and the exact target
FlowAccepted(c) ==
    /\ ValidateConfig(c) = "ok"
    /\ CheckCapacity(c) = "ok"
    /\ c.FlowCount >= 1
    /\ c.PacketsPerFlow >= 1
    /\ c.FlowCount <= 2 * c.InternalHosts * c.ExternalHosts
    /\ c.ExactBytes >= 24 + c.FlowCount * c.PacketsPerFlow * 78

RandomAccepted(c) ==
    /\ ValidateConfig(c) = "ok"
    /\ c.FlowCount = 0
    /\ c.ExactBytes >= 24 + 78

\* C3: in fixed-flow mode an accepted configuration (F >= 1, P >= 1,
\* T >= 24 + F*P*78) is not refused, and a finished run has written exactly
\* F*P records into a file of exactly T bytes.
C3_FlowFileExactSize ==
    (gpc = "gdone" /\ FlowAccepted(gcfg))
      => /\ gresult \in {"nil", "errIO"}
         /\ gresult = "nil" =>
              /\ Len(files) = 1
              /\ Len(CurrentFile.records) = gcfg.FlowCount * gcfg.PacketsPerFlow
              /\ CurrentFile.bytes = gcfg.ExactBytes

\* C3 witness: several flows of several packets, with padding to place.
C3_Witness ==
    /\ gpc = "gdone"
    /\ gresult = "nil"
    /\ gcfg.FlowCount >= 3
    /\ gcfg.PacketsPerFlow >= 2
    /\ gcfg.ExactBytes > 24 + gcfg.FlowCount * gcfg.PacketsPerFlow * 78
    /\ CurrentFile.bytes = gcfg.ExactBytes

\* C4: in random mode with an exact target T >= 24 + 78 a finished run has
\* written floor((T - 24) / 78) records, the last alone carrying padding,
\* of (T - 24) mod 78 bytes, into a file of exactly T bytes.
C4_RandomFileExactSize ==
    (gpc = "gdone" /\ RandomAccepted(gcfg))
      => /\ gresult \in {"nil", "errIO"}
         /\ gresult = "nil" =>
              LET n == (gcfg.ExactBytes - 24) \div 78
                  recs == CurrentFile.records
              IN
              /\ Len(files) = 1
              /\ Len(recs) = n
              /\ \A k \in 1..(n - 1) : recs[k].caplen = 62
              /\ recs[n].caplen = 62 + ((gcfg.ExactBytes - 24) % 78)
              /\ CurrentFile.bytes = gcfg.ExactBytes

\* C4 witness: several records, the last one padded.
C4_Witness ==
    /\ gpc = "gdone"
    /\ gresult = "nil"
    /\ gcfg.FlowCount = 0
    /\ Len(CurrentFile.records) >= 3
    /\ (gcfg.ExactBytes - 24) % 78 > 0
    /\ CurrentFile.bytes = gcfg.ExactBytes

\* every (internal index, external index, direction) triple of the pools
AllFlows(ni, ne) == (0..(ni - 1)) \X (0..(ne - 1)) \X BOOLEAN

\* C5: flowIndexToHosts on 0 .. 2*I*E - 1 is a bijection onto the triples
\* (internal index < I, external index < E, direction): the flows written
\* for distinct flow indices are distinct and in range, no host index is
\* out of range, and a file of 2*I*E flows holds every triple.
C5_FlowIndexBijection ==
    /\ gresult # "panic"
    /\ (gcfg.FlowCount > 0 /\ files # <<>>) =>
         LET recs == CurrentFile.records
             n == Len(recs)
         IN
         /\ \A k \in 1..n :
              /\ recs[k].flow \in AllFlows(internal.count, external.count)
              /\ recs[k].flowIdx # recs[n].flowIdx => recs[k].flow # recs[n].flow
         /\ (gresult = "nil"
               /\ gcfg.FlowCount = 2 * internal.count * external.count)
              => { recs[k].flow : k \in 1..n }
                   = AllFlows(internal.count, external.count)

\* C5 witness: every flow of a 1 x 2 grid has been written.
C5_Witness ==
    /\ gresult = "nil"
    /\ gcfg.FlowCount = 4
    /\ internal.count = 1
    /\ external.count = 2
    /\ Len(CurrentFile.records) >= 4

\* host indices the address assignment is compared on
ProbeIdx == {0, 1, 2, 255, 256, 257, 511, 512, 65535, 65536, 65537, 65791,
             65792, 131072, 16711680, 16777215, 16777216, 16777217}

\* C6: in capacity-unique mode the addresses of each pool are pairwise
\* distinct, and a pool larger than its address range (65536 internal,
\* 16777216 external) makes Generate fail before it produces anything.
C6_UniqueAddresses ==
    /\ (gpc # "idle" /\ internal.mode = "unique") =>
         \A i, j \in { x \in ProbeIdx : x < internal.count } :
            i # j => uniqueInternalIPv4(i) # uniqueInternalIPv4(j)
    /\ (gpc # "idle" /\ external.mode = "unique") =>
         \A i, j \in { x \in ProbeIdx : x < external.count } :
            i # j => uniqueExternalIPv4(i) # uniqueExternalIPv4(j)
    /\ (gpc \notin {"idle", "gstart"} /\ gcfg.FlowCount > 0
          /\ (gcfg.InternalHosts > 65536 \/ gcfg.ExternalHosts > 16777216))
         => /\ gpc = "gdone"
            /\ gresult \notin {"none", "nil"}
            /\ files = <<>>

\* C6 witness: full pools of 65536 internal hosts have been built.
C6_Witness ==
    /\ gpc = "file"
    /\ internal.mode = "unique"
    /\ internal.count = 65536

\* C7: in every file the timestamps of the records are non-decreasing in
\* write order, in random mode and in fixed-flow mode.
C7_TimestampsNonDecreasing ==
    \A f \in 1..Len(files) :
        \A k \in 1..(Len(files[f].records) - 1) :
            files[f].records[k].ts <= files[f].records[k + 1].ts

\* C7 witness: a random-mode file whose second record repeats the first
\* timestamp and whose third lies a second or more after the start.
C7_Witness ==
    /\ gcfg.FlowCount = 0
    /\ files # <<>>
    /\ Len(CurrentFile.records) >= 3
    /\ CurrentFile.records[2].ts = CurrentFile.records[1].ts
    /\ CurrentFile.records[3].ts >= CurrentFile.records[1].ts + UsecPerSec

\* C10: a flow count above 2 * |internal| * |external| is refused before
\* the output file is created: no file, no header, no record.
C10_FlowCapacityRefusedBeforeOutput ==
    (gcfg.InternalHosts > 0 /\ gcfg.ExternalHosts > 0
       /\ gcfg.FlowCount > 2 * gcfg.InternalHosts * gcfg.ExternalHosts)
      => /\ files = <<>>
         /\ gpc = "gdone" => gresult \notin {"none", "nil"}

\* the errors of Generate's validation, lines 59-82
ConfigErrors == {"errHosts", "errFileCount", "errOutFileCount",
                 "errExactFileCount", "errDuration", "errExactSize",
                 "errFlowCount", "errPacketsPerFlow"}

\* hosts, file count, durations and flow parameters pass lines 59-82
FieldsValid(c) ==
    /\ c.InternalHosts > 0 /\ c.ExternalHosts > 0
    /\ c.MinDuration > 0 /\ c.MaxDuration >= c.MinDuration
    /\ c.FlowCount >= 0
    /\ c.FlowCount > 0 => c.PacketsPerFlow > 0

C12_MultiFileSequence ==
    (gpc = "gdone" /\ gcfg.FileCount > 1 /\ gcfg.OutFile = ""
       /\ FieldsValid(gcfg) /\ CheckCapacity(gcfg) = "ok")
      => /\ gresult \in {"nil", "errIO"}
         /\ gresult = "nil" =>
              /\ Len(files) = gcfg.FileCount
              /\ \A i \in 1..Len(files) :
                   /\ files[i].path.digits = Digits(i - 1, 6)
                   /\ i > 1 => files[i].start
                                 = files[i - 1].start + files[i - 1].dur

\* the k-th transmission of a Replay that sends the whole capture pass
\* after pass: the pass it belongs to and the record it carries
PassOf(k) == (k - 1) \div Len(capture)
RecordOf(k) == ((k - 1) % Len(capture)) + 1

\* C13: with limit 0 and no transmit error the packets go out in capture
\* order within each pass and pass after pass; with a loop count n >= 1
\* Replay can always take its next step until it returns, and when it
\* returns every packet of the capture has been transmitted exactly n
\* times; with loop count 0 it never returns normally.
C13_EveryPacketEveryPass ==
    (cfg.Limit = 0 /\ pc # "idle") =>
      /\ \A k \in 1..Len(Sent) :
           /\ Sent[k].loop = PassOf(k)
           /\ Sent[k].idx = RecordOf(k)
      /\ (cfg.Loop >= 1 /\ pc = "done" /\ result = "nil") =>
           /\ Len(Sent) = cfg.Loop * Len(capture)
           /\ Sent = wire
           /\ loop = cfg.Loop
      /\ (cfg.Loop >= 1 /\ pc # "done") => ENABLED ReplayNext
      /\ cfg.Loop = 0 => result # "nil"

\* C13 witness: two passes over a capture of three packets have been made
\* without a limit, and Replay has returned.
C13_Witness ==
    /\ cfg.Limit = 0
    /\ cfg.Loop = 2
    /\ Len(capture) = 3
    /\ pc = "done"
    /\ result = "nil"
    /\ Len(Sent) = 6

\* C14: with a limit L > 0 the shared remaining budget is, at every point
\* of a Replay invocation, L minus the number of packets transmitted so far
\* across all loop iterations; it never goes below zero, and every
\* transmission takes exactly one from it, in whichever pass it happens.
C14_BudgetIsLimitMinusSent ==
    (cfg.Limit > 0 /\ pc # "idle") =>
      /\ limit = cfg.Limit - Len(Sent)
      /\ limit >= 0
      /\ remaining = "nil" => pc \in {"start", "done"} /\ wire = <<>>

\* C14 witness: a limit of three has been spent over two loop iterations,
\* two packets in the first and the last one in the second.
C14_Witness ==
    /\ cfg.Limit = 3
    /\ remaining = "ptr"
    /\ loop = 1
    /\ limit = 0
    /\ Len(Sent) = 3
    /\ Sent[2].loop = 0
    /\ Sent[3].loop = 1

\* C15: in random mode the sub-second offset of the timestamp cursor is in
\* [0, 1000000) microseconds after every advance.
C15_CursorNormalised ==
    (gpc = "randPkt" /\ fn.kind = "random")
      => fn.offsetUsec >= 0 /\ fn.offsetUsec < UsecPerSec

\* C16: every record written to a capture has a captured length no greater
\* than the snap length SnapLen that WriteFileHeader declared in the file's
\* header.
C16_RecordsWithinSnapLen ==
    \A f \in 1..Len(files) :
      \A k \in 1..Len(files[f].records) :
        /\ files[f].header
        /\ files[f].records[k].caplen <= SnapLen

\* C17 as stated: every record timestamp of a file lies within the file's
\* capture window [start, start + duration], in both modes.
C17_TimestampsInWindow ==
    \A f \in 1..Len(files) :
      \A k \in 1..Len(files[f].records) :
        /\ files[f].records[k].ts >= files[f].start
        /\ files[f].records[k].ts <= files[f].start + files[f].dur

\* C17 as amended: in both modes every record timestamp is at or after the
\* whole second the file starts in; in fixed-flow mode it is at or after
\* the start itself and, as long as there are no more packets than
\* microseconds in the duration (the step is not clamped), at or before
\* start + duration.
C17_TimestampsFromStart ==
    \A f \in 1..Len(files) :
      \A k \in 1..Len(files[f].records) :
        LET ts == files[f].records[k].ts
            start == files[f].start
        IN
        /\ ts >= (start \div UsecPerSec) * UsecPerSec
        /\ gcfg.FlowCount > 0 => ts >= start
        /\ (gcfg.FlowCount > 0
              /\ gcfg.FlowCount * gcfg.PacketsPerFlow <= files[f].dur)
             => ts <= start + files[f].dur

\* C17 witness: a fixed-flow file of three packets over three microseconds
\* is complete, its last record two microseconds after the start.
C17_Witness ==
    /\ gpc = "gdone"
    /\ gresult = "nil"
    /\ gcfg.FlowCount = 3
    /\ gcfg.PacketsPerFlow = 1
    /\ Len(files) = 1
    /\ files[1].dur = 3
    /\ Len(files[1].records) = 3
    /\ files[1].records[3].ts = files[1].start + 2

====
